---------------------------- MODULE Spec2Model ----------------------------
(***************************************************************************)
(* Model of image-worker-mcp: the transform operation (ImageProcessor.exec *)
(* behind resizeImageTool) and the upload operation (UploadTool.exec       *)
(* behind uploadImageTool, and the storage adapters' upload methods).      *)
(*                                                                         *)
(* An optional value of the program (a field that may be undefined) is a   *)
(* set with at most one element: {} is undefined, {v} is the value v.      *)
(* An exception is a record [mcp, code, name, msg]: mcp tells whether it   *)
(* is an McpError, code is its ErrorCode ("Error" for any other            *)
(* exception), name is its name property, msg is the set of text fragments *)
(* its message contains.                                                   *)
(***************************************************************************)
EXTENDS Integers, Sequences, FiniteSets, TLC

(***************************************************************************)
(* Bounds of the exploration.                                              *)
(***************************************************************************)
\* a request sets at most MaxArgs of its optional fields
MaxArgs == 3
\* the number of concurrent invocations of upload on one key
MaxRacers == 3

(***************************************************************************)
(* Program constants.                                                      *)
(***************************************************************************)
SUPPORTED_INPUT_FORMATS ==
  {"jpeg", "jpg", "png", "webp", "avif", "tiff", "gif", "heic", "heif"}
SUPPORTED_OUTPUT_FORMATS == {"jpeg", "png", "webp", "avif"}
DEFAULT_QUALITY == 80
DEFAULT_WIDTH == 800
DEFAULT_HEIGHT == 600

\* the order in which applyTransformations tests the filter arguments
FilterOrder ==
  <<"rotate", "flip", "flop", "grayscale", "blur", "sharpen", "gamma",
    "negate", "normalize", "threshold", "trim">>

Sources == {"imagePath", "imageUrl", "base64Image"}

Range(s) == {s[i] : i \in 1..Len(s)}

\* the fields of a transform request (resizeImageSchema)
ResizeFields ==
  Sources \cup Range(FilterOrder) \cup
  {"format", "width", "height", "quality", "fit", "outputImage", "outputPath"}

\* file paths and names are sequences of characters
PathIn == <<"x", "/", "i", "n", ".", "p", "n", "g">>
PathOut == <<"o", "\\", " ", "p", ".", "p", "n", "g">>
UrlIn == <<"h", ":", "/", "/", "e", "/", "a", ".", "p", "n", "g", "?", "v">>
\* a URL whose query string holds a '/'
UrlSlashQuery ==
  <<"h", ":", "/", "/", "e", "/", "a", ".", "p", "n", "g", "?", "v", "=", "/", "z">>
Base64In == <<"A", "A", "A", "A">>
FolderIn == <<"2", "4">>
NameBare == <<"p">>
NameUpper == <<"p", ".", "P", "N", "G">>
NameOther == <<"p", ".", "x">>
NameDot == <<"p", ".">>
TagsIn == <<"a", "b c">>

\* the fields of an upload request (uploadImageSchema)
UploadFields ==
  Sources \cup {"service", "filename", "folder", "public", "overwrite", "tags", "metadata"}

\* the fields of the args an adapter's upload reads
AdapterFields == {"service", "folder", "public", "overwrite", "tags", "metadata"}

\* the values the exploration gives to the fields that are set; v chooses
\* among the values of the fields that have several
Variants == [format : {"png", "webp"}, threshold : {0, 128}, outputImage : BOOLEAN]
UploadVariants ==
  [service : {"s3", "cloudflare", "gcloud"}, filename : {NameBare, NameUpper},
   imageUrl : {UrlIn, UrlSlashQuery},
   public : BOOLEAN, overwrite : BOOLEAN, tags : {TagsIn, <<>>}]
AdapterVariants ==
  [service : {"s3", "cloudflare", "gcloud"}, public : BOOLEAN, overwrite : BOOLEAN,
   tags : {TagsIn, <<>>}]

FieldValue(f, v) ==
  CASE f = "imagePath" -> PathIn
    [] f = "imageUrl" -> IF "imageUrl" \in DOMAIN v THEN v.imageUrl ELSE UrlIn
    [] f = "base64Image" -> Base64In
    [] f = "format" -> v.format
    [] f = "width" -> 100
    [] f = "height" -> 50
    [] f = "quality" -> 90
    [] f = "fit" -> "cover"
    [] f = "rotate" -> 90
    [] f = "blur" -> 5
    [] f = "sharpen" -> 2
    [] f = "gamma" -> 2
    [] f = "threshold" -> v.threshold
    [] f = "outputImage" -> v.outputImage
    [] f = "outputPath" -> PathOut
    [] f = "service" -> v.service
    [] f = "filename" -> v.filename
    [] f = "folder" -> FolderIn
    [] f = "public" -> v.public
    [] f = "overwrite" -> v.overwrite
    [] f = "tags" -> v.tags
    [] OTHER -> TRUE

\* the formats the image engine may report for an input (in lower case)
EngineFormats == SUPPORTED_INPUT_FORMATS \cup {"bmp"}

(***************************************************************************)
(* JavaScript truthiness of an optional value.                             *)
(***************************************************************************)
TruthyNum(o) == o # {} /\ o # {0}
TruthyStr(o) == o # {} /\ o # {""}
TruthyText(o) == o # {} /\ o # {<<>>}
TruthyBool(o) == o = {TRUE}

\* the value of an optional that is set
The(o) == CHOOSE x \in o : TRUE

\* o || d
OrElse(o, d) == IF o = {} THEN d ELSE o

RECURSIVE Str(_)
Str(s) == IF s = <<>> THEN "" ELSE Head(s) \o Str(Tail(s))

McpError(code, msg) == [mcp |-> TRUE, code |-> code, name |-> "McpError", msg |-> msg]
NamedError(name, msg) == [mcp |-> FALSE, code |-> "Error", name |-> name, msg |-> msg]
PlainError(msg) == NamedError("Error", msg)

VARIABLES
  op,          \* what is invoked: "transform" (resizeImageTool), "upload"
               \* (uploadImageTool) or "adapter" (an adapter's upload method)
  request,     \* the arguments of the tool call as the client sent them
  args,        \* this.args: the validated request
  pc,          \* the position of the invocation
  inputFormat, \* ImageProcessor.inputFormat
  calls,       \* the calls made to the file system, the network, the engine
               \* and the storage backend, in order
  outputFormat,\* the format formatOutput selected
  env,         \* process.env
  config,      \* the adapter's this.config, {} before it is constructed
  filename,    \* the file name handed to the adapter's upload
  probed,      \* the outcome of the existence probe, {} if none was made
  uploaded,    \* the UploadResult the adapter returned
  raised,      \* the exception as first raised inside the operation
  thrown,      \* the exception that left the step it was raised in
  result,      \* how the invocation ended
  racers,      \* the position and the probe outcome of each of the concurrent
               \* invocations of upload, <<>> when there is only one invocation
  writes       \* the invocations whose bytes were stored under the key the
               \* concurrent invocations target, in the order of their puts;
               \* 0 is an object stored before them

vars == <<op, request, args, pc, inputFormat, calls, outputFormat, env, config,
          filename, probed, uploaded, raised, thrown, result, racers, writes>>

transformVars == <<inputFormat, outputFormat>>
uploadVars == <<env, config, filename, probed, uploaded>>

Call(name, arg) == [op |-> name, arg |-> arg]
CallNames == {calls[i].op : i \in 1..Len(calls)}

(***************************************************************************)
(* Requests: every assignment of at most MaxArgs fields.                   *)
(***************************************************************************)
RECURSIVE SubsetsUpTo(_, _)
SubsetsUpTo(S, k) ==
  IF k = 0 THEN {{}}
  ELSE LET smaller == SubsetsUpTo(S, k - 1)
       IN smaller \cup {T \cup {x} : T \in smaller, x \in S}

Requests(fields, variants) ==
  {[f \in fields |-> IF f \in S THEN {FieldValue(f, v)} ELSE {}] :
     S \in SubsetsUpTo(fields, MaxArgs), v \in variants}

NoResult == [kind |-> "pending"]

InitTransform ==
  /\ op = "transform"
  /\ args \in Requests(ResizeFields, Variants)
  /\ request = args
  /\ pc = "getInputBuffer"
  /\ env = <<>>
  /\ config = {}
  /\ filename = {}

\* throw e inside the try block of exec
Throw(e) ==
  /\ raised' = {e}
  /\ thrown' = {e}
  /\ pc' = "catch"

(***************************************************************************)
(* utils: normalizeFilePath, fetchImageFromUrl                             *)
(***************************************************************************)
\* the characters normalizeFilePath unescapes (the grave accent is written
\* "grave": the module's lexer does not take it in a string)
EscapedChars == {" ", "'", "\"", "grave", "(", ")", "[", "]", "{", "}"}

\* s[i] belongs to a run of backslashes that ends right before an escaped
\* character: the run one of the regular expressions \\+c matches
RECURSIVE InEscapeRun(_, _)
InEscapeRun(s, i) ==
  /\ s[i] = "\\"
  /\ i < Len(s)
  /\ \/ s[i + 1] \in EscapedChars
     \/ InEscapeRun(s, i + 1)

RECURSIVE KeepFrom(_, _)
KeepFrom(s, i) ==
  IF i > Len(s) THEN <<>>
  ELSE IF InEscapeRun(s, i) THEN KeepFrom(s, i + 1)
  ELSE <<s[i]>> \o KeepFrom(s, i + 1)

\* a variant that leaves the escapes in the path
normalizeFilePathUnchanged(filePath) == filePath

normalizeFilePath(filePath) == KeepFrom(filePath, 1)

\* the responses of the remote server and of the network: network tells
\* whether fetch resolved, body whether the body could be read
FetchResponses ==
  {[network |-> FALSE, ok |-> FALSE, status |-> 0, contentType |-> {}, body |-> FALSE]} \cup
  [network : {TRUE}, ok : {TRUE}, status : {200},
   contentType : {{}, {"image/png"}, {"text/html"}}, body : {TRUE}] \cup
  {[network |-> TRUE, ok |-> TRUE, status |-> 200, contentType |-> {"image/png"},
    body |-> FALSE]} \cup
  [network : {TRUE}, ok : {FALSE}, status : {404},
   contentType : {{"image/png"}, {"text/html"}}, body : {TRUE}]

StartsWithImage(contentType) == contentType \in {"image/png", "image/jpeg"}

\* a variant that looks at the content type before the status
fetchImageFromUrlContentTypeFirst(url, resp) ==
  IF ~resp.network
  THEN {McpError("InternalError", {"Error fetching image from URL"})}
  ELSE IF resp.contentType = {} \/ ~StartsWithImage(The(resp.contentType))
  THEN {McpError("InvalidParams", {"URL does not point to an image", Str(url)})}
  ELSE IF ~resp.ok
  THEN {McpError("InvalidParams",
          {"Failed to fetch image from URL", Str(url), "status code", ToString(resp.status)})}
  ELSE IF ~resp.body
  THEN {McpError("InternalError", {"Error fetching image from URL"})}
  ELSE {}

\* the exception fetchImageFromUrl throws for a response, {} if it returns
fetchImageFromUrl(url, resp) ==
  IF ~resp.network
  THEN {McpError("InternalError", {"Error fetching image from URL"})}
  ELSE IF ~resp.ok
  THEN {McpError("InvalidParams",
          {"Failed to fetch image from URL", Str(url), "status code", ToString(resp.status)})}
  ELSE IF resp.contentType = {} \/ ~StartsWithImage(The(resp.contentType))
  THEN {McpError("InvalidParams", {"URL does not point to an image", Str(url)})}
  ELSE IF ~resp.body
  THEN {McpError("InternalError", {"Error fetching image from URL"})}
  ELSE {}

(***************************************************************************)
(* ImageProcessor                                                          *)
(***************************************************************************)
NoSourceError ==
  McpError("InvalidParams", {"One of imagePath, imageUrl, or base64Image must be provided"})

\* a resolution that prefers the inline payload to the path and the URL
SourceUsedInlineFirst(a) ==
  IF TruthyText(a.base64Image) THEN "base64Image"
  ELSE IF TruthyText(a.imagePath) THEN "imagePath"
  ELSE IF TruthyText(a.imageUrl) THEN "imageUrl"
  ELSE "none"

\* the source getInputBuffer reads: the first truthy one
SourceUsed(a) ==
  IF TruthyText(a.imagePath) THEN "imagePath"
  ELSE IF TruthyText(a.imageUrl) THEN "imageUrl"
  ELSE IF TruthyText(a.base64Image) THEN "base64Image"
  ELSE "none"

GetInputBuffer ==
  /\ op = "transform"
  /\ pc = "getInputBuffer"
  /\ CASE SourceUsed(args) = "none" ->
            /\ Throw(NoSourceError)
            /\ UNCHANGED calls
       [] SourceUsed(args) = "imagePath" ->
            /\ calls' = Append(calls,
                 Call("readFile", {normalizeFilePath(The(args.imagePath))}))
            /\ \E readOk \in BOOLEAN :
                 IF readOk
                 THEN pc' = "validate" /\ UNCHANGED <<raised, thrown>>
                 ELSE Throw(McpError("InvalidParams",
                        {"Failed to read image from path", Str(The(args.imagePath))}))
       [] SourceUsed(args) = "imageUrl" ->
            /\ \E resp \in FetchResponses :
                 LET e == fetchImageFromUrl(The(args.imageUrl), resp)
                 IN /\ calls' = Append(calls,
                         Call("fetch", {[url |-> The(args.imageUrl), response |-> resp]}))
                    /\ IF e = {}
                       THEN pc' = "validate" /\ UNCHANGED <<raised, thrown>>
                       ELSE Throw(The(e))
       [] SourceUsed(args) = "base64Image" ->
            /\ calls' = Append(calls, Call("base64Decode", {}))
            /\ pc' = "validate"
            /\ UNCHANGED <<raised, thrown>>
  /\ UNCHANGED <<op, request, args, racers, writes, inputFormat, outputFormat, result, uploadVars>>

\* a check that lets every format through
isValidInputFormatAny(format) == TRUE

isValidInputFormat(format) == format \in SUPPORTED_INPUT_FORMATS

ValidateAndInitializeSharp ==
  /\ op = "transform"
  /\ pc = "validate"
  /\ \E isHeif \in BOOLEAN :
       IF isHeif
       THEN /\ \E decoded \in {"image", "empty", "exception"} :
                 /\ calls' = Append(calls, Call("heifDecode", {decoded}))
                 /\ IF decoded = "image"
                    THEN /\ inputFormat' = {"heic"}
                         /\ pc' = "applyResize"
                         /\ UNCHANGED <<raised, thrown>>
                    ELSE /\ Throw(McpError("InvalidParams", {"Failed to decode HEIF image"}))
                         /\ UNCHANGED inputFormat
       ELSE \E rejected \in BOOLEAN, format \in {{}} \cup {{f} : f \in EngineFormats} :
              IF rejected
              THEN /\ calls' = Append(calls, Call("metadata", {[rejected |-> TRUE, format |-> {}]}))
                   /\ Throw(PlainError({"Input buffer contains unsupported image format"}))
                   /\ UNCHANGED inputFormat
              ELSE /\ calls' = Append(calls, Call("metadata", {[rejected |-> FALSE, format |-> format]}))
                   /\ inputFormat' = format
                   /\ IF format = {} \/ ~isValidInputFormat(The(format))
                      THEN Throw(McpError("InvalidParams",
                             {"Unsupported input format"} \cup
                             (IF format = {} THEN {"undefined"} ELSE format)))
                      ELSE pc' = "applyResize" /\ UNCHANGED <<raised, thrown>>
  /\ UNCHANGED <<op, request, args, racers, writes, outputFormat, result, uploadVars>>

\* a variant that fills in the default of every unset dimension
applyResizeAlwaysDefaults(a) ==
  [width |-> IF TruthyNum(a.width) THEN a.width ELSE {DEFAULT_WIDTH},
   height |-> IF TruthyNum(a.height) THEN a.height ELSE {DEFAULT_HEIGHT},
   fit |-> IF TruthyStr(a.fit) THEN a.fit ELSE {"contain"}]

\* a variant that defaults the fit only when both dimensions were given
applyResizeFitWhenBothGiven(a) ==
  IF TruthyNum(a.width) /\ ~TruthyNum(a.height)
  THEN [width |-> a.width, height |-> {}, fit |-> a.fit]
  ELSE IF ~TruthyNum(a.width) /\ TruthyNum(a.height)
  THEN [width |-> {}, height |-> a.height, fit |-> a.fit]
  ELSE [width |-> IF TruthyNum(a.width) THEN a.width ELSE {DEFAULT_WIDTH},
        height |-> IF TruthyNum(a.height) THEN a.height ELSE {DEFAULT_HEIGHT},
        fit |-> IF ~TruthyStr(a.fit) /\ TruthyNum(a.width) /\ TruthyNum(a.height)
                THEN {"contain"} ELSE a.fit]

\* the options applyResize passes to image.resize
applyResize(a) ==
  IF TruthyNum(a.width) /\ ~TruthyNum(a.height)
  THEN [width |-> a.width, height |-> {}, fit |-> a.fit]
  ELSE IF ~TruthyNum(a.width) /\ TruthyNum(a.height)
  THEN [width |-> {}, height |-> a.height, fit |-> a.fit]
  ELSE LET width == IF TruthyNum(a.width) THEN a.width ELSE {DEFAULT_WIDTH}
           height == IF TruthyNum(a.height) THEN a.height ELSE {DEFAULT_HEIGHT}
       IN [width |-> width, height |-> height,
           fit |-> IF ~TruthyStr(a.fit) /\ TruthyNum(width) /\ TruthyNum(height)
                   THEN {"contain"} ELSE a.fit]

ApplyResize ==
  /\ op = "transform"
  /\ pc = "applyResize"
  /\ calls' = Append(calls, Call("resize", {applyResize(args)}))
  /\ pc' = "applyTransformations"
  /\ UNCHANGED <<op, request, args, racers, writes, inputFormat, outputFormat, raised, thrown, result, uploadVars>>

NumericFilters == {"rotate", "blur", "sharpen", "gamma", "threshold"}

\* the test if (this.args.<filter>) of applyTransformations
FilterRequested(a, f) ==
  IF f \in NumericFilters THEN TruthyNum(a[f]) ELSE TruthyBool(a[f])

\* the engine call of a requested filter
FilterCall(a, f) == Call(f, IF f \in NumericFilters THEN a[f] ELSE {})

\* the filter calls applyTransformations makes, from the i-th test on
RECURSIVE TransformationsFrom(_, _)
TransformationsFrom(a, i) ==
  IF i > Len(FilterOrder) THEN <<>>
  ELSE (IF FilterRequested(a, FilterOrder[i])
        THEN <<FilterCall(a, FilterOrder[i])>> ELSE <<>>)
       \o TransformationsFrom(a, i + 1)

RECURSIVE Reverse(_)
Reverse(s) == IF s = <<>> THEN <<>> ELSE Reverse(Tail(s)) \o <<Head(s)>>

\* a variant that applies the requested filters in the opposite order
applyTransformationsReversed(a) == Reverse(TransformationsFrom(a, 1))

applyTransformations(a) == TransformationsFrom(a, 1)

ApplyTransformations ==
  /\ op = "transform"
  /\ pc = "applyTransformations"
  /\ calls' = calls \o applyTransformations(args)
  /\ pc' = "formatOutput"
  /\ UNCHANGED <<op, request, args, racers, writes, inputFormat, outputFormat, raised, thrown, result, uploadVars>>

\* const outputFormat = this.args.format || this.inputFormat || 'jpeg'
SelectOutputFormat(a, detected) ==
  IF TruthyStr(a.format) THEN The(a.format)
  ELSE IF TruthyStr(detected) THEN The(detected)
  ELSE "jpeg"

\* a variant that ignores the requested quality
SelectDefaultQuality(a) == DEFAULT_QUALITY

\* a variant that keeps the requested quality for local and inline images only
SelectQualityUnlessRemote(a) ==
  IF TruthyNum(a.quality) /\ ~TruthyText(a.imageUrl) THEN The(a.quality) ELSE DEFAULT_QUALITY

\* const quality = this.args.quality || DEFAULT_QUALITY
SelectQuality(a) == IF TruthyNum(a.quality) THEN The(a.quality) ELSE DEFAULT_QUALITY

\* a variant that encodes any other format as JPEG
EncoderWithFallback(format) ==
  CASE format = "png" -> {"png"}
    [] format = "webp" -> {"webp"}
    [] format = "avif" -> {"avif"}
    [] OTHER -> {"jpeg"}

\* the encoder the switch of formatOutput calls for a format, {} for none
Encoder(format) ==
  CASE format \in {"jpeg", "jpg"} -> {"jpeg"}
    [] format = "png" -> {"png"}
    [] format = "webp" -> {"webp"}
    [] format = "avif" -> {"avif"}
    [] OTHER -> {}

FormatOutput ==
  /\ op = "transform"
  /\ pc = "formatOutput"
  /\ LET format == SelectOutputFormat(args, inputFormat)
         quality == SelectQuality(args)
     IN IF Encoder(format) = {}
        THEN /\ Throw(McpError("InvalidParams", {"Unsupported output format", format}))
             /\ UNCHANGED <<calls, outputFormat>>
        ELSE /\ calls' = Append(calls, Call("encode",
                    {[encoder |-> The(Encoder(format)), quality |-> quality]}))
             /\ \E encoded \in BOOLEAN :
                  IF encoded
                  THEN /\ outputFormat' = {format}
                       /\ pc' = "saveToFile"
                       /\ UNCHANGED <<raised, thrown>>
                  ELSE /\ Throw(PlainError({"engine failure"}))
                       /\ UNCHANGED outputFormat
  /\ UNCHANGED <<op, request, args, racers, writes, inputFormat, result, uploadVars>>

SaveToFile ==
  /\ op = "transform"
  /\ pc = "saveToFile"
  /\ IF TruthyText(args.outputPath)
     THEN /\ calls' = Append(calls,
               Call("writeFile", {normalizeFilePath(The(args.outputPath))}))
          /\ \E written \in BOOLEAN :
               IF written
               THEN pc' = "respond" /\ UNCHANGED <<raised, thrown>>
               ELSE Throw(McpError("InternalError",
                      {"Failed to save image to", Str(The(args.outputPath))}))
     ELSE /\ pc' = "respond"
          /\ UNCHANGED <<calls, raised, thrown>>
  /\ UNCHANGED <<op, request, args, racers, writes, inputFormat, outputFormat, result, uploadVars>>

\* a variant that always returns the encoded image
TransformResponseWithImage(a, format) ==
  [hasImage |-> TRUE,
   format |-> format,
   savedTo |-> IF TruthyText(a.outputPath) THEN a.outputPath ELSE {},
   source |-> IF TruthyText(a.imagePath) THEN "file"
              ELSE IF TruthyText(a.imageUrl) THEN "url" ELSE "base64"]

\* the JSON object of the transform response
TransformResponse(a, format) ==
  [hasImage |-> TruthyBool(a.outputImage),
   format |-> format,
   savedTo |-> IF TruthyText(a.outputPath) THEN a.outputPath ELSE {},
   source |-> IF TruthyText(a.imagePath) THEN "file"
              ELSE IF TruthyText(a.imageUrl) THEN "url" ELSE "base64"]

Respond ==
  /\ op = "transform"
  /\ pc = "respond"
  /\ calls' = Append(calls, Call("finalMetadata", {}))
  /\ \E rejected \in BOOLEAN :
       IF rejected
       THEN /\ Throw(PlainError({"engine failure"}))
            /\ UNCHANGED result
       ELSE /\ result' = [kind |-> "success",
                          body |-> TransformResponse(args, The(outputFormat))]
            /\ pc' = "done"
            /\ UNCHANGED <<raised, thrown>>
  /\ UNCHANGED <<op, request, args, racers, writes, inputFormat, outputFormat, uploadVars>>

\* the catch block of exec: an McpError is re-thrown, any other exception
\* becomes an isError result with its message
CatchResult(e, prefix) ==
  IF e.mcp
  THEN [kind |-> "throw", error |-> e]
  ELSE [kind |-> "isError", text |-> {prefix} \cup e.msg]

Catch ==
  /\ op \in {"transform", "upload"}
  /\ pc = "catch"
  /\ result' = CatchResult(The(thrown),
                  IF op = "transform" THEN "Error processing image"
                  ELSE "Error uploading image")
  /\ pc' = "done"
  /\ UNCHANGED <<op, request, args, racers, writes, calls, raised, thrown, transformVars, uploadVars>>

(***************************************************************************)
(* Character sequences: the parts of String.split the program uses         *)
(***************************************************************************)
Contains(s, c) == \E i \in 1..Len(s) : s[i] = c

LastIndexOf(s, c) == CHOOSE i \in 1..Len(s) : s[i] = c /\ \A j \in (i + 1)..Len(s) : s[j] # c
FirstIndexOf(s, c) == CHOOSE i \in 1..Len(s) : s[i] = c /\ \A j \in 1..(i - 1) : s[j] # c

\* s.split(c).pop()
LastPart(s, c) == IF Contains(s, c) THEN SubSeq(s, LastIndexOf(s, c) + 1, Len(s)) ELSE s

\* s.split(c)[0]
FirstPart(s, c) == IF Contains(s, c) THEN SubSeq(s, 1, FirstIndexOf(s, c) - 1) ELSE s

LowerOf(c) ==
  CASE c = "P" -> "p" [] c = "N" -> "n" [] c = "G" -> "g" [] c = "J" -> "j"
    [] c = "X" -> "x" [] OTHER -> c

toLowerCase(s) == [i \in 1..Len(s) |-> LowerOf(s[i])]

\* the text of an optional string in a template literal
Text(o) == IF o = {} THEN "undefined" ELSE The(o)

\* a || b on optional strings
Or(a, b) == IF TruthyStr(a) THEN a ELSE b

(***************************************************************************)
(* Configuration: process.env, loadUploadConfig, UploadServiceFactory      *)
(***************************************************************************)
EnvVars ==
  {"UPLOAD_SERVICE", "S3_BUCKET", "AWS_ACCESS_KEY_ID", "S3_ACCESS_KEY",
   "AWS_SECRET_ACCESS_KEY", "S3_SECRET_KEY", "S3_REGION", "S3_ENDPOINT",
   "CLOUDFLARE_R2_BUCKET", "CF_BUCKET", "CLOUDFLARE_R2_ACCESS_KEY_ID", "CF_ACCESS_KEY",
   "CLOUDFLARE_R2_SECRET_ACCESS_KEY", "CF_SECRET_KEY", "CLOUDFLARE_R2_REGION",
   "CLOUDFLARE_R2_ENDPOINT", "CF_ENDPOINT"}

Env(set) == [v \in EnvVars |-> IF v \in DOMAIN set THEN {set[v]} ELSE {}]

\* the environments explored
Environments ==
  { Env(<<>>),
    Env([S3_BUCKET |-> "b", AWS_ACCESS_KEY_ID |-> "k", AWS_SECRET_ACCESS_KEY |-> "s",
         S3_ACCESS_KEY |-> "ak", S3_SECRET_KEY |-> "as", S3_REGION |-> "r"]),
    Env([S3_BUCKET |-> "b", S3_ACCESS_KEY |-> "ak", S3_SECRET_KEY |-> "as"]),
    Env([S3_BUCKET |-> "b", S3_ENDPOINT |-> "https://x"]),
    Env([S3_BUCKET |-> "b", AWS_ACCESS_KEY_ID |-> "k"]),
    Env([UPLOAD_SERVICE |-> "cloudflare", S3_BUCKET |-> "b", AWS_ACCESS_KEY_ID |-> "k",
         AWS_SECRET_ACCESS_KEY |-> "s", CLOUDFLARE_R2_BUCKET |-> "b",
         CLOUDFLARE_R2_ACCESS_KEY_ID |-> "k", CLOUDFLARE_R2_SECRET_ACCESS_KEY |-> "s",
         CF_ACCESS_KEY |-> "ak", CF_SECRET_KEY |-> "as",
         CLOUDFLARE_R2_ENDPOINT |-> "https://x"]),
    Env([CF_BUCKET |-> "b", CF_ACCESS_KEY |-> "k", CF_SECRET_KEY |-> "s"]) }

NoConfig(service) ==
  [service |-> service, bucket |-> {}, apiKey |-> {}, apiSecret |-> {},
   region |-> {}, endpoint |-> {}, baseUrl |-> {}, projectId |-> {}]

loadUploadConfig(service, e) ==
  LET selectedService ==
        IF TruthyStr(service) THEN The(service)
        ELSE IF TruthyStr(e.UPLOAD_SERVICE) THEN The(e.UPLOAD_SERVICE)
        ELSE "s3"
  IN CASE selectedService = "s3" ->
            [NoConfig("s3") EXCEPT
               !.apiKey = Or(e.AWS_ACCESS_KEY_ID, e.S3_ACCESS_KEY),
               !.apiSecret = Or(e.AWS_SECRET_ACCESS_KEY, e.S3_SECRET_KEY),
               !.bucket = e.S3_BUCKET,
               !.region = Or(e.S3_REGION, {"us-east-1"}),
               !.endpoint = e.S3_ENDPOINT]
       [] selectedService = "cloudflare" ->
            [NoConfig("cloudflare") EXCEPT
               !.apiKey = Or(e.CLOUDFLARE_R2_ACCESS_KEY_ID, e.CF_ACCESS_KEY),
               !.apiSecret = Or(e.CLOUDFLARE_R2_SECRET_ACCESS_KEY, e.CF_SECRET_KEY),
               !.bucket = Or(e.CLOUDFLARE_R2_BUCKET, e.CF_BUCKET),
               !.region = Or(e.CLOUDFLARE_R2_REGION, {"auto"}),
               !.endpoint = Or(e.CLOUDFLARE_R2_ENDPOINT, e.CF_ENDPOINT)]
       [] OTHER -> NoConfig(selectedService)

\* UploadServiceFactory.create and the adapter's constructor: the adapter's
\* configuration, or the exception thrown; clientOk tells whether the storage
\* client could be constructed
create(c, clientOk) ==
  CASE c.service = "s3" ->
         IF ~clientOk
         THEN [ok |-> FALSE, error |-> PlainError({"client construction failed"})]
         ELSE [ok |-> TRUE, config |-> c]
    [] c.service = "cloudflare" ->
         IF ~TruthyStr(c.endpoint)
         THEN [ok |-> FALSE,
               error |-> McpError("InvalidParams", {"Cloudflare R2 requires an endpoint URL"})]
         ELSE IF ~clientOk
         THEN [ok |-> FALSE, error |-> PlainError({"client construction failed"})]
         ELSE [ok |-> TRUE, config |-> c]
    [] OTHER ->
         [ok |-> FALSE,
          error |-> McpError("InvalidParams", {"Unsupported upload service", c.service})]

\* S3UploadService.validateConfig: the exception thrown, {} if none
S3ValidateConfig(c) ==
  IF ~TruthyStr(c.apiKey) \/ ~TruthyStr(c.apiSecret) \/ ~TruthyStr(c.bucket)
  THEN {McpError("InvalidParams",
          {"S3 upload service requires apiKey, apiSecret, and bucket configuration"})}
  ELSE {}

\* CloudflareUploadService.validateConfig: the exception thrown, {} if none
CloudflareValidateConfig(c) ==
  IF ~TruthyStr(c.apiKey) \/ ~TruthyStr(c.apiSecret)
       \/ ~TruthyStr(c.bucket) \/ ~TruthyStr(c.endpoint)
  THEN {McpError("InvalidParams",
          {"Cloudflare R2 upload service requires apiKey, apiSecret, bucket, and endpoint configuration"})}
  ELSE {}

validateConfig(c) ==
  IF c.service = "cloudflare" THEN CloudflareValidateConfig(c) ELSE S3ValidateConfig(c)

(***************************************************************************)
(* The factory and the constructors that take the configuration in the     *)
(* form of the environment (services/factory.ts, S3UploadService and       *)
(* CloudflareUploadService with a validated environment configuration)     *)
(***************************************************************************)
\* reading a property an object does not have gives undefined
Prop(c, k) == IF k \in DOMAIN c THEN c[k] ELSE {}

\* loadUploadConfig of services/factory.ts: the object it returns
FactoryLoadUploadConfig(service, e) ==
  LET selectedService ==
        IF TruthyStr(service) THEN The(service)
        ELSE IF TruthyStr(e.UPLOAD_SERVICE) THEN The(e.UPLOAD_SERVICE)
        ELSE "s3"
  IN IF selectedService = "s3"
     THEN [UPLOAD_SERVICE |-> {"s3"},
           S3_BUCKET |-> e.S3_BUCKET,
           AWS_ACCESS_KEY_ID |-> e.AWS_ACCESS_KEY_ID,
           AWS_SECRET_ACCESS_KEY |-> e.AWS_SECRET_ACCESS_KEY,
           S3_REGION |-> Or(e.S3_REGION, {"us-east-1"}),
           S3_ENDPOINT |-> e.S3_ENDPOINT]
     ELSE IF selectedService = "cloudflare"
     THEN [service |-> {"cloudflare"},
           bucket |-> Or(e.CLOUDFLARE_R2_BUCKET, e.CF_BUCKET),
           apiKey |-> Or(e.CLOUDFLARE_R2_ACCESS_KEY_ID, e.CF_ACCESS_KEY),
           apiSecret |-> Or(e.CLOUDFLARE_R2_SECRET_ACCESS_KEY, e.CF_SECRET_KEY),
           region |-> Or(e.CLOUDFLARE_R2_REGION, {"auto"}),
           endpoint |-> Or(e.CLOUDFLARE_R2_ENDPOINT, e.CF_ENDPOINT)]
     ELSE [service |-> {selectedService}]

\* the strings z.string().url() accepts, among those explored
IsUrl(s) == s \in {"https://x", "https://cdn"}

\* the issues S3EnvConfigSchema.parse finds in an object, {} if it parses
S3EnvConfigSchema(c) ==
  LET fields ==
        (IF ~TruthyStr(Prop(c, "S3_BUCKET")) THEN {"S3_BUCKET"} ELSE {}) \cup
        (IF Prop(c, "S3_ENDPOINT") # {} /\ ~IsUrl(The(Prop(c, "S3_ENDPOINT")))
         THEN {"S3_ENDPOINT"} ELSE {})
      paired == TruthyStr(Prop(c, "AWS_ACCESS_KEY_ID"))
                  = TruthyStr(Prop(c, "AWS_SECRET_ACCESS_KEY"))
  IN IF fields # {} THEN fields
     ELSE IF ~paired THEN {"AWS_ACCESS_KEY_ID"}
     ELSE {}

\* the region the S3UploadService constructs its storage client with
S3ClientRegion(c) == Or(c.region, {"us-east-1"})

\* this.config of the S3UploadService constructed from a parsed object
S3ServiceConfig(c) ==
  [NoConfig("s3") EXCEPT
     !.bucket = Prop(c, "S3_BUCKET"),
     !.apiKey = Prop(c, "AWS_ACCESS_KEY_ID"),
     !.apiSecret = Prop(c, "AWS_SECRET_ACCESS_KEY"),
     !.region = Prop(c, "S3_REGION"),
     !.endpoint = Prop(c, "S3_ENDPOINT")]

\* this.config of the CloudflareUploadService constructed from an object
CloudflareServiceConfig(c) ==
  [NoConfig("cloudflare") EXCEPT
     !.bucket = Prop(c, "CLOUDFLARE_R2_BUCKET"),
     !.apiKey = Prop(c, "CLOUDFLARE_R2_ACCESS_KEY_ID"),
     !.apiSecret = Prop(c, "CLOUDFLARE_R2_SECRET_ACCESS_KEY"),
     !.region = Or(Prop(c, "CLOUDFLARE_R2_REGION"), {"auto"}),
     !.endpoint = Prop(c, "CLOUDFLARE_R2_ENDPOINT")]

\* UploadServiceFactory.create of services/factory.ts: the adapter's
\* configuration, or the exception thrown
FactoryCreate(c, clientOk) ==
  LET serviceType == Or(Prop(c, "service"), Prop(c, "UPLOAD_SERVICE"))
  IN CASE serviceType = {"s3"} ->
            IF S3EnvConfigSchema(c) # {}
            THEN [ok |-> FALSE,
                  error |-> McpError("InvalidParams",
                              {"S3 configuration validation failed"} \cup S3EnvConfigSchema(c))]
            ELSE IF ~clientOk
            THEN [ok |-> FALSE, error |-> PlainError({"client construction failed"})]
            ELSE [ok |-> TRUE, config |-> S3ServiceConfig(c)]
       [] serviceType = {"cloudflare"} ->
            IF ~clientOk
            THEN [ok |-> FALSE, error |-> PlainError({"client construction failed"})]
            ELSE [ok |-> TRUE, config |-> CloudflareServiceConfig(c)]
       [] OTHER ->
            [ok |-> FALSE,
             error |-> McpError("InvalidParams",
                         {"Unsupported upload service", Text(serviceType)})]

(***************************************************************************)
(* UploadTool                                                              *)
(***************************************************************************)
\* uploadImageTool up to tool.exec(): loadUploadConfig and the constructor of
\* UploadTool, outside the try block of exec
ConstructUploadTool ==
  /\ op = "upload"
  /\ pc = "construct"
  /\ \E clientOk \in BOOLEAN :
       LET made == create(loadUploadConfig(args.service, env), clientOk)
           failure == IF ~made.ok THEN {made.error} ELSE validateConfig(made.config)
       IN IF failure = {}
          THEN /\ config' = {made.config}
               /\ pc' = "getInputBuffer"
               /\ UNCHANGED <<raised, thrown, result>>
          ELSE /\ raised' = failure
               /\ thrown' = failure
               /\ result' = [kind |-> "throw", error |-> The(failure)]
               /\ pc' = "done"
               /\ UNCHANGED config
  /\ UNCHANGED <<op, request, args, racers, writes, calls, env, filename, probed, uploaded, transformVars>>

GeneratedName == <<"i", "m", "g", "_", "1", ".", "j", "p", "g">>

generateFilename(a, originalFilename) ==
  IF TruthyText(a.filename)
  THEN IF Contains(The(a.filename), ".")
       THEN The(a.filename)
       ELSE LET last == IF originalFilename = {} THEN {}
                        ELSE {LastPart(The(originalFilename), ".")}
                extension == IF TruthyText(last) THEN The(last) ELSE <<"j", "p", "g">>
            IN The(a.filename) \o <<".">> \o extension
  ELSE IF TruthyText(originalFilename) THEN The(originalFilename)
  ELSE GeneratedName

\* the originalFilename getInputBuffer returns for the source it reads
OriginalFilename(a) ==
  CASE SourceUsed(a) = "imagePath" -> {LastPart(normalizeFilePath(The(a.imagePath)), "/")}
    [] SourceUsed(a) = "imageUrl" -> {FirstPart(LastPart(The(a.imageUrl), "/"), "?")}
    [] SourceUsed(a) = "base64Image" -> {<<"i", "m", "a", "g", "e">>}
    [] OTHER -> {}

\* getInputBuffer and generateFilename of UploadTool.exec
UploadGetInputBuffer ==
  /\ op = "upload"
  /\ pc = "getInputBuffer"
  /\ CASE SourceUsed(args) = "none" ->
            /\ Throw(NoSourceError)
            /\ UNCHANGED <<calls, filename>>
       [] SourceUsed(args) = "imagePath" ->
            /\ calls' = Append(calls,
                 Call("readFile", {normalizeFilePath(The(args.imagePath))}))
            /\ \E readOk \in BOOLEAN :
                 IF readOk
                 THEN /\ filename' = {generateFilename(args, OriginalFilename(args))}
                      /\ pc' = "upload"
                      /\ UNCHANGED <<raised, thrown>>
                 ELSE /\ Throw(McpError("InvalidParams",
                           {"Failed to read image from path", Str(The(args.imagePath))}))
                      /\ UNCHANGED filename
       [] SourceUsed(args) = "imageUrl" ->
            /\ \E resp \in FetchResponses :
                 LET e == fetchImageFromUrl(The(args.imageUrl), resp)
                 IN /\ calls' = Append(calls,
                         Call("fetch", {[url |-> The(args.imageUrl), response |-> resp]}))
                    /\ IF e = {}
                       THEN /\ filename' = {generateFilename(args, OriginalFilename(args))}
                            /\ pc' = "upload"
                            /\ UNCHANGED <<raised, thrown>>
                       ELSE /\ Throw(The(e))
                            /\ UNCHANGED filename
       [] SourceUsed(args) = "base64Image" ->
            /\ calls' = Append(calls, Call("base64Decode", {}))
            /\ filename' = {generateFilename(args, OriginalFilename(args))}
            /\ pc' = "upload"
            /\ UNCHANGED <<raised, thrown>>
  /\ UNCHANGED <<op, request, args, racers, writes, env, config, probed, uploaded, result, transformVars>>

(***************************************************************************)
(* Storage adapters: S3UploadService, CloudflareUploadService,             *)
(* GCloudUploadService                                                     *)
(***************************************************************************)
Adapter == The(config).service

ObjectKey(a, name) ==
  IF TruthyText(a.folder) THEN The(a.folder) \o <<"/">> \o name ELSE name

\* a variant that keeps the letter case of the extension
FileExtensionCaseKept(name) ==
  LET parts == IF Contains(name, ".") THEN LastPart(name, ".") ELSE <<>>
  IN IF parts = <<>> THEN "jpg" ELSE Str(parts)

FileExtension(name) ==
  LET parts == IF Contains(name, ".") THEN toLowerCase(LastPart(name, ".")) ELSE <<>>
  IN IF parts = <<>> THEN "jpg" ELSE Str(parts)

getContentType(extension) ==
  CASE extension \in {"jpg", "jpeg"} -> "image/jpeg"
    [] extension = "png" -> "image/png"
    [] extension = "gif" -> "image/gif"
    [] extension = "webp" -> "image/webp"
    [] extension = "avif" -> "image/avif"
    [] extension = "tiff" -> "image/tiff"
    [] extension = "heic" -> "image/heic"
    [] extension = "heif" -> "image/heif"
    [] OTHER -> "application/octet-stream"

BackendName(service) ==
  CASE service = "s3" -> "S3"
    [] service = "cloudflare" -> "Cloudflare R2"
    [] service = "gcloud" -> "GCloud"

\* an outer catch that wraps whatever it catches
AdapterCatchAlwaysWraps(service, e) ==
  McpError("InternalError", {BackendName(service) \o " upload failed"} \cup e.msg)

\* the outer catch of an adapter's upload
AdapterCatch(service, e) ==
  IF e.mcp THEN e
  ELSE McpError("InternalError", {BackendName(service) \o " upload failed"} \cup e.msg)

\* the exception leaves the adapter's upload through its outer catch
AdapterThrow(e) ==
  /\ raised' = {e}
  /\ thrown' = {AdapterCatch(Adapter, e)}
  /\ pc' = "catch"

AlreadyExists(key) ==
  McpError("InvalidParams",
    {"File", Str(key), "already exists", "Set overwrite=true to replace it."})

\* the outcomes of the existence probe: the HEAD request of the S3 client
\* resolves or is rejected with a named error; exists() of the GCS client
\* resolves to true or false or is rejected
ProbeErrors == {"NotFound", "NoSuchKey", "AccessDenied", "TimeoutError"}
ProbeOutcomes(service) ==
  (IF service = "gcloud" THEN {"exists", "absent"} ELSE {"exists"}) \cup ProbeErrors

\* an inner catch that lets the upload go on after any probe error
ProbeErrorAlwaysProceeds(name) == TRUE

\* the inner catch of the S3 and R2 adapters: these names let the upload go on
ProbeErrorProceeds(name) == name \in {"NotFound", "NoSuchKey"}

\* an overwrite check that goes on to the put over an existing object
CheckOverwriteIgnoringExisting(service, key, outcome) ==
  IF outcome \in {"exists", "absent"} THEN {}
  ELSE IF service # "gcloud" /\ ProbeErrorProceeds(outcome) THEN {}
  ELSE {NamedError(outcome, {"probe failed: " \o outcome})}

\* the exception the overwrite check raises for a probe outcome, {} if the
\* upload goes on to the put
CheckOverwrite(service, key, outcome) ==
  IF outcome = "exists" THEN {AlreadyExists(key)}
  ELSE IF outcome = "absent" THEN {}
  ELSE IF service # "gcloud" /\ ProbeErrorProceeds(outcome) THEN {}
  ELSE {NamedError(outcome, {"probe failed: " \o outcome})}

\* the first half of upload: the key and the overwrite check
AdapterCheckExists ==
  /\ op \in {"upload", "adapter"}
  /\ pc = "upload"
  /\ LET key == ObjectKey(args, The(filename))
     IN IF TruthyBool(args.overwrite)
        THEN /\ pc' = "put"
             /\ UNCHANGED <<calls, probed, raised, thrown>>
        ELSE /\ calls' = Append(calls, Call("probe", {key}))
             /\ \E outcome \in ProbeOutcomes(Adapter) :
                  LET e == CheckOverwrite(Adapter, key, outcome)
                  IN /\ probed' = {outcome}
                     /\ IF e = {}
                        THEN pc' = "put" /\ UNCHANGED <<raised, thrown>>
                        ELSE AdapterThrow(The(e))
  /\ UNCHANGED <<op, request, args, racers, writes, env, config, filename, uploaded, result, transformVars>>

encodeURIComponent(t) == IF t = "b c" THEN "b%20c" ELSE t

RECURSIVE Tagging(_)
Tagging(tags) ==
  IF Len(tags) = 1 THEN "tag=" \o encodeURIComponent(tags[1])
  ELSE "tag=" \o encodeURIComponent(Head(tags)) \o "&" \o Tagging(Tail(tags))

\* a variant that gives every backend the options of the S3 put
PutOptionsOfS3(service, a, key, contentType) ==
  [key |-> key,
   contentType |-> contentType,
   acl |-> {IF TruthyBool(a.public) THEN "public-read" ELSE "private"},
   tagging |-> IF a.tags # {} /\ Len(The(a.tags)) > 0
               THEN {Tagging(The(a.tags))}
               ELSE {},
   public |-> IF service = "gcloud" THEN a.public ELSE {}]

\* the parameters of the PutObjectCommand, or the options of file.save
PutOptions(service, a, key, contentType) ==
  [key |-> key,
   contentType |-> contentType,
   acl |-> IF service = "s3"
           THEN {IF TruthyBool(a.public) THEN "public-read" ELSE "private"}
           ELSE {},
   tagging |-> IF service = "s3" /\ a.tags # {} /\ Len(The(a.tags)) > 0
               THEN {Tagging(The(a.tags))}
               ELSE {},
   public |-> IF service = "gcloud" THEN a.public ELSE {}]

\* a variant that builds every URL from the endpoint and the bucket
generateUrlPathStyle(c, key) ==
  Text(c.endpoint) \o "/" \o Text(c.bucket) \o "/" \o Str(key)

\* a variant of the R2 adapter that never uses the custom base URL
generateUrlIgnoringBaseUrl(c, key) ==
  CASE c.service = "s3" ->
         IF TruthyStr(c.endpoint)
         THEN The(c.endpoint) \o "/" \o Text(c.bucket) \o "/" \o Str(key)
         ELSE "https://" \o Text(c.bucket) \o ".s3." \o Text(c.region)
                \o ".amazonaws.com/" \o Str(key)
    [] c.service = "cloudflare" ->
         Text(c.endpoint) \o "/" \o Text(c.bucket) \o "/" \o Str(key)
    [] c.service = "gcloud" ->
         "https://storage.googleapis.com/" \o Text(c.bucket) \o "/" \o Str(key)

generateUrl(c, key) ==
  CASE c.service = "s3" ->
         IF TruthyStr(c.endpoint)
         THEN The(c.endpoint) \o "/" \o Text(c.bucket) \o "/" \o Str(key)
         ELSE "https://" \o Text(c.bucket) \o ".s3." \o Text(c.region)
                \o ".amazonaws.com/" \o Str(key)
    [] c.service = "cloudflare" ->
         IF TruthyStr(c.baseUrl)
         THEN The(c.baseUrl) \o "/" \o Str(key)
         ELSE Text(c.endpoint) \o "/" \o Text(c.bucket) \o "/" \o Str(key)
    [] c.service = "gcloud" ->
         "https://storage.googleapis.com/" \o Text(c.bucket) \o "/" \o Str(key)

UploadResult(c, name, key) ==
  [url |-> generateUrl(c, key),
   filename |-> name,
   format |-> FileExtension(name),
   service |-> c.service,
   key |-> key,
   bucket |-> c.bucket,
   region |-> c.region]

\* the second half of upload: the put and the result
AdapterPut ==
  /\ op \in {"upload", "adapter"}
  /\ pc = "put"
  /\ LET key == ObjectKey(args, The(filename))
         contentType == getContentType(FileExtension(The(filename)))
     IN /\ calls' = Append(calls,
               Call("put", {PutOptions(Adapter, args, key, contentType)}))
        /\ \E stored \in BOOLEAN :
             IF stored
             THEN /\ uploaded' = {UploadResult(The(config), The(filename), key)}
                  /\ pc' = "uploaded"
                  /\ UNCHANGED <<raised, thrown>>
             ELSE /\ AdapterThrow(PlainError({"backend failure"}))
                  /\ UNCHANGED uploaded
  /\ UNCHANGED <<op, request, args, racers, writes, env, config, filename, probed, result, transformVars>>

\* an adapter made by UploadServiceFactory.create of services/factory.ts
\* from the object its loadUploadConfig returns, and the call of its upload
FactoryCreateAdapter ==
  /\ op = "adapter"
  /\ pc = "create"
  /\ \E clientOk \in BOOLEAN :
       LET loaded == FactoryLoadUploadConfig(args.service, env)
           made == FactoryCreate(loaded, clientOk)
       IN /\ calls' = Append(calls, Call("create", {loaded}))
          /\ IF made.ok
             THEN /\ config' = {made.config}
                  /\ filename' = {NameUpper}
                  /\ pc' = "upload"
                  /\ UNCHANGED <<raised, thrown, result>>
             ELSE /\ raised' = {made.error}
                  /\ thrown' = {made.error}
                  /\ result' = [kind |-> "throw", error |-> made.error]
                  /\ pc' = "done"
                  /\ UNCHANGED <<config, filename>>
  /\ UNCHANGED <<op, request, args, racers, writes, env, probed, uploaded, transformVars>>

\* the end of a direct call of an adapter's upload
AdapterReturn ==
  /\ op = "adapter"
  /\ pc \in {"uploaded", "catch"}
  /\ result' = IF pc = "uploaded"
               THEN [kind |-> "success", body |-> The(uploaded)]
               ELSE [kind |-> "throw", error |-> The(thrown)]
  /\ pc' = "done"
  /\ UNCHANGED <<op, request, args, racers, writes, calls, raised, thrown, transformVars, uploadVars>>

\* the response of UploadTool.exec
UploadRespond ==
  /\ op = "upload"
  /\ pc = "uploaded"
  /\ result' = [kind |-> "success", body |-> The(uploaded)]
  /\ pc' = "done"
  /\ UNCHANGED <<op, request, args, racers, writes, calls, raised, thrown, transformVars, uploadVars>>

\* the zod defaults of uploadImageSchema
WithDefaults(a) ==
  [a EXCEPT !.service = IF @ = {} THEN {"s3"} ELSE @,
            !.public = IF @ = {} THEN {TRUE} ELSE @,
            !.overwrite = IF @ = {} THEN {FALSE} ELSE @]

InitUpload ==
  /\ op = "upload"
  /\ request \in Requests(UploadFields, UploadVariants)
  /\ args = WithDefaults(request)
  /\ pc = "construct"
  /\ env \in Environments
  /\ config = {}
  /\ filename = {}

\* the configurations of the adapters constructed directly
AdapterConfigs ==
  { [NoConfig("s3") EXCEPT !.bucket = {"b"}, !.region = {"r"}],
    [NoConfig("s3") EXCEPT !.bucket = {"b"}],
    [NoConfig("s3") EXCEPT !.bucket = {"b"}, !.endpoint = {"https://x"}],
    [NoConfig("cloudflare") EXCEPT !.bucket = {"b"}, !.apiKey = {"k"}, !.apiSecret = {"s"},
                                    !.region = {"auto"}, !.endpoint = {"https://x"}],
    [NoConfig("cloudflare") EXCEPT !.bucket = {"b"}, !.apiKey = {"k"}, !.apiSecret = {"s"},
                                    !.region = {"auto"}, !.endpoint = {"https://x"},
                                    !.baseUrl = {"https://cdn"}],
    [NoConfig("gcloud") EXCEPT !.bucket = {"b"}, !.projectId = {"p"}] }

\* an adapter is constructed directly with a configuration, or by the factory
\* from the environment
InitAdapter ==
  /\ op = "adapter"
  /\ args \in Requests(AdapterFields, AdapterVariants)
  /\ request = args
  /\ \/ /\ pc = "upload"
        /\ args.service = {}
        /\ env = Env(<<>>)
        /\ config \in {{c} : c \in AdapterConfigs}
        /\ filename \in {{NameBare}, {NameUpper}, {NameOther}, {NameDot}}
     \/ /\ pc = "create"
        /\ env \in Environments
        /\ config = {}
        /\ filename = {}

Init ==
  /\ InitTransform \/ InitUpload \/ InitAdapter
  /\ inputFormat = {}
  /\ outputFormat = {}
  /\ calls = <<>>
  /\ probed = {}
  /\ uploaded = {}
  /\ raised = {}
  /\ thrown = {}
  /\ result = NoResult
  /\ racers = <<>>
  /\ writes = <<>>

Next ==
  \/ GetInputBuffer
  \/ ValidateAndInitializeSharp
  \/ ApplyResize
  \/ ApplyTransformations
  \/ FormatOutput
  \/ SaveToFile
  \/ Respond
  \/ Catch
  \/ ConstructUploadTool
  \/ UploadGetInputBuffer
  \/ AdapterCheckExists
  \/ AdapterPut
  \/ FactoryCreateAdapter
  \/ AdapterReturn
  \/ UploadRespond

Spec == Init /\ [][Next]_vars

(***************************************************************************)
(* Concurrent invocations of an adapter's upload on one key: each awaits   *)
(* its probe and then its put, and the invocations interleave at these     *)
(* awaits                                                                  *)
(***************************************************************************)
Racers == 1..MaxRacers

InitRace ==
  /\ op = "race"
  /\ args \in {a \in Requests(AdapterFields, AdapterVariants) :
                 a.service = {} /\ a.tags = {} /\ a.public = {} /\ a.metadata = {}}
  /\ request = args
  /\ config \in {{c} : c \in AdapterConfigs}
  /\ filename = {NameUpper}
  /\ racers = [i \in Racers |-> [pc |-> "upload", probed |-> {}]]
  /\ writes \in {<<>>, <<0>>}
  /\ pc = "race"
  /\ env = Env(<<>>)
  /\ inputFormat = {}
  /\ outputFormat = {}
  /\ calls = <<>>
  /\ probed = {}
  /\ uploaded = {}
  /\ raised = {}
  /\ thrown = {}
  /\ result = NoResult

\* the outcome of a probe of the key when the bucket answers
ProbeOfBucket(service) ==
  IF writes # <<>> THEN "exists"
  ELSE IF service = "gcloud" THEN "absent"
  ELSE "NotFound"

\* the first half of upload by invocation i: the overwrite check
RaceCheckExists(i) ==
  /\ op = "race"
  /\ racers[i].pc = "upload"
  /\ IF TruthyBool(args.overwrite)
     THEN racers' = [racers EXCEPT ![i].pc = "put"]
     ELSE LET outcome == ProbeOfBucket(Adapter)
              e == CheckOverwrite(Adapter, ObjectKey(args, The(filename)), outcome)
          IN racers' = [racers EXCEPT ![i].probed = {outcome},
                                      ![i].pc = IF e = {} THEN "put" ELSE "failed"]
  /\ UNCHANGED <<op, request, args, pc, inputFormat, calls, outputFormat, env, config,
                 filename, probed, uploaded, raised, thrown, result, writes>>

\* the second half of upload by invocation i: the put
RacePut(i) ==
  /\ op = "race"
  /\ racers[i].pc = "put"
  /\ \E stored \in BOOLEAN :
       IF stored
       THEN /\ writes' = Append(writes, i)
            /\ racers' = [racers EXCEPT ![i].pc = "uploaded"]
       ELSE /\ racers' = [racers EXCEPT ![i].pc = "failed"]
            /\ UNCHANGED writes
  /\ UNCHANGED <<op, request, args, pc, inputFormat, calls, outputFormat, env, config,
                 filename, probed, uploaded, raised, thrown, result>>

NextRace ==
  \/ \E i \in Racers : RaceCheckExists(i)
  \/ \E i \in Racers : RacePut(i)

SpecRace == InitRace /\ [][NextRace]_vars

(***************************************************************************)
(* Properties of the transform operation                                   *)
(***************************************************************************)
Succeeded == result.kind = "success"

SpecifiedOrder ==
  <<"rotate", "flip", "flop", "grayscale", "blur", "sharpen", "gamma",
    "negate", "normalize", "threshold", "trim">>

\* resize is step 0, the filters are steps 1 to 11, encoding is step 12
StepOf(name) ==
  IF name = "resize" THEN 0
  ELSE IF name = "encode" THEN Len(SpecifiedOrder) + 1
  ELSE IF \E k \in 1..Len(SpecifiedOrder) : SpecifiedOrder[k] = name
  THEN CHOOSE k \in 1..Len(SpecifiedOrder) : SpecifiedOrder[k] = name
  ELSE -1

\* C3: the resize comes first, the filter operations applied are a
\* subsequence of rotate, flip, flop, grayscale, blur, sharpen, gamma, negate,
\* normalize, threshold, trim with each at most once, and encoding starts
\* only after the last of them.
FiltersInFixedOrder ==
  /\ \A i, j \in 1..Len(calls) :
       (i < j /\ StepOf(calls[i].op) >= 0 /\ StepOf(calls[j].op) >= 0)
         => StepOf(calls[i].op) < StepOf(calls[j].op)
  /\ \A j \in 1..Len(calls) :
       StepOf(calls[j].op) >= 1 => \E i \in 1..(j - 1) : calls[i].op = "resize"

TwoFiltersEncoded ==
  /\ op = "transform"
  /\ Succeeded
  /\ {"rotate", "trim", "encode"} \subseteq CallNames

\* C4: the format selected for encoding is the requested format, else the
\* detected input format, else 'jpeg'; the quality given to the encoder is
\* the requested quality, else 80; the response reports the selected format.
OutputFormatAndQualityResolved ==
  LET format == IF args.format # {} THEN The(args.format)
                ELSE IF inputFormat # {} THEN The(inputFormat)
                ELSE "jpeg"
      quality == IF args.quality # {} THEN The(args.quality) ELSE 80
  IN /\ \A i \in 1..Len(calls) :
          calls[i].op = "encode" =>
            /\ The(calls[i].arg).quality = quality
            /\ The(calls[i].arg).encoder = (IF format = "jpg" THEN "jpeg" ELSE format)
     /\ outputFormat # {} => outputFormat = {format}
     /\ (op = "transform" /\ Succeeded) => result.body.format = format

DetectedFormatEncoded ==
  /\ op = "transform"
  /\ Succeeded
  /\ args.format = {}
  /\ args.quality = {}
  /\ result.body.format = "webp"
  /\ \E i \in 1..Len(calls) :
       calls[i].op = "encode" /\ The(calls[i].arg).quality = 80

FormatOutputRan ==
  /\ op = "transform"
  /\ "resize" \in CallNames
  /\ pc \notin {"applyTransformations", "formatOutput"}

FailedNaming(code, text) ==
  /\ raised # {}
  /\ The(raised).mcp
  /\ The(raised).code = code
  /\ text \in The(raised).msg
  /\ pc = "done" => (result.kind = "throw" /\ result.error = The(raised))

EncodeRejected(format) ==
  /\ FailedNaming("InvalidParams", format)
  /\ "encode" \notin CallNames
  /\ "writeFile" \notin CallNames
  /\ ~Succeeded

\* C10 as stated: a selected format outside jpeg, png, webp, avif makes the
\* transform fail with InvalidParams naming it, without a file or a response.
UnsupportedOutputFormatFails ==
  (FormatOutputRan /\ SelectOutputFormat(args, inputFormat) \notin {"jpeg", "png", "webp", "avif"})
    => EncodeRejected(SelectOutputFormat(args, inputFormat))

\* C10 amended: a selected format outside jpeg, jpg, png, webp, avif makes
\* the transform fail with InvalidParams naming it at encode time: nothing is
\* encoded, no file is written and no success response is produced.
UnencodableFormatFails ==
  (FormatOutputRan
     /\ SelectOutputFormat(args, inputFormat) \notin {"jpeg", "jpg", "png", "webp", "avif"})
    => EncodeRejected(SelectOutputFormat(args, inputFormat))

TiffOutputRejected ==
  /\ FormatOutputRan
  /\ SelectOutputFormat(args, inputFormat) = "tiff"
  /\ pc = "done"
  /\ result.kind = "throw"

(***************************************************************************)
(* Uploads                                                                 *)
(***************************************************************************)
InAdapter == op \in {"upload", "adapter"} /\ filename # {}

BackendCalls == SelectSeq(calls, LAMBDA c : c.op \in {"probe", "put"})

UploadFailedWith(code) ==
  /\ pc \in {"catch", "done"}
  /\ thrown # {}
  /\ The(thrown).mcp
  /\ The(thrown).code = code
  /\ "put" \notin CallNames
  /\ uploaded = {}
  /\ pc = "done" => (result.kind = "throw" /\ result.error = The(thrown))

\* C1: in every adapter, an upload without overwrite whose probe finds the
\* object fails with an InvalidParams error naming the key and saying
\* 'already exists', and no put is issued; an upload with overwrite issues
\* no probe, and the put is its only call to the backend.
OverwriteProtected ==
  InAdapter =>
    /\ (~TruthyBool(args.overwrite) /\ probed = {"exists"}) =>
          /\ UploadFailedWith("InvalidParams")
          /\ Str(ObjectKey(args, The(filename))) \in The(thrown).msg
          /\ "already exists" \in The(thrown).msg
    /\ TruthyBool(args.overwrite) =>
          /\ probed = {}
          /\ "probe" \notin CallNames
          /\ Len(BackendCalls) <= 1
          /\ (pc \in {"uploaded", "catch", "done"}) =>
                (Len(BackendCalls) = 1 /\ BackendCalls[1].op = "put")

ExistingObjectRefused ==
  /\ op = "adapter"
  /\ config # {}
  /\ Adapter = "gcloud"
  /\ TruthyText(args.folder)
  /\ probed = {"exists"}
  /\ pc = "done"

\* C6: in the S3 and R2 adapters a probe error named NotFound or NoSuchKey
\* counts as 'the object does not exist' and the put is made; in every
\* adapter a probe error of any other name fails the upload with an
\* InternalError and no put is attempted.
ProbeErrorsHandled ==
  (InAdapter /\ probed # {} /\ The(probed) \in ProbeErrors) =>
    IF The(probed) \in {"NotFound", "NoSuchKey"}
    THEN Adapter \in {"s3", "cloudflare"} =>
           (pc = "put" \/ calls[Len(calls)].op = "put")
    ELSE UploadFailedWith("InternalError")

MissingObjectUploaded ==
  /\ InAdapter
  /\ config # {}
  /\ Adapter = "cloudflare"
  /\ probed = {"NoSuchKey"}
  /\ Succeeded

\* C8: an exception of the probe or of the put that is not an McpError
\* leaves the adapter's upload as an InternalError whose message holds the
\* backend's name and the original message; an McpError leaves it as the
\* identical error.
AdapterErrorsClassified ==
  (InAdapter /\ raised # {} /\ CallNames \cap {"probe", "put"} # {}) =>
    /\ thrown # {}
    /\ IF The(raised).mcp
       THEN The(thrown) = The(raised)
       ELSE /\ The(thrown).mcp
            /\ The(thrown).code = "InternalError"
            /\ (BackendName(Adapter) \o " upload failed") \in The(thrown).msg
            /\ The(raised).msg \subseteq The(thrown).msg

BackendFailureWrapped ==
  /\ op = "adapter"
  /\ config # {}
  /\ Adapter = "gcloud"
  /\ "put" \in CallNames
  /\ raised # {}
  /\ ~The(raised).mcp
  /\ pc = "done"

(***************************************************************************)
(* Input resolution and the boundary of the operations                      *)
(***************************************************************************)
Populated == {f \in Sources : TruthyText(args[f])}

\* the calls that read a source
SourceReads == SelectSeq(calls, LAMBDA c : c.op \in {"readFile", "fetch", "base64Decode"})

\* getInputBuffer has run
InputResolved ==
  \/ op = "transform" /\ pc # "getInputBuffer"
  \/ op = "upload" /\ config # {} /\ pc # "getInputBuffer"

RejectedUnread ==
  /\ raised # {}
  /\ The(raised).mcp
  /\ The(raised).code = "InvalidParams"
  /\ SourceReads = <<>>
  /\ ~Succeeded
  /\ pc = "done" => (result.kind = "throw" /\ result.error = The(raised))

\* C5 as stated: a request with none or with more than one of the three
\* sources populated fails input resolution with an InvalidParams error and
\* nothing is read, fetched or decoded.
ExactlyOneSourceAccepted ==
  (InputResolved /\ Cardinality(Populated) # 1) => RejectedUnread

\* C5: a request with none of the three sources populated fails input
\* resolution with an InvalidParams error and nothing is read, fetched or
\* decoded; a request with one or more populated reads only the first
\* populated one in the order imagePath, imageUrl, base64Image.
FirstPopulatedSourceRead ==
  InputResolved =>
    IF Populated = {} THEN RejectedUnread
    ELSE /\ Len(SourceReads) = 1
         /\ SourceReads[1].op =
              (IF "imagePath" \in Populated THEN "readFile"
               ELSE IF "imageUrl" \in Populated THEN "fetch"
               ELSE "base64Decode")

TwoSourcesUploaded ==
  /\ op = "upload"
  /\ Populated = {"imageUrl", "base64Image"}
  /\ Succeeded

\* C7 as stated: every invocation of the transform or of the upload ends
\* as a success result, as an isError result carrying the message of an
\* exception that is not an McpError, or as a thrown McpError that is the one
\* raised inside; no other exception leaves the operation.
InvocationEndsClassified ==
  (op \in {"transform", "upload"} /\ pc = "done") =>
    \/ result.kind = "success" /\ raised = {}
    \/ /\ result.kind = "isError"
       /\ ~The(raised).mcp
       /\ The(raised).msg \subseteq result.text
    \/ /\ result.kind = "throw"
       /\ result.error.mcp
       /\ result.error = The(thrown)



(***************************************************************************)
(* Format detection, default output format, fit                            *)
(***************************************************************************)
\* the calls made to the engine after the detection, and the file write
LaterCalls == (CallNames \cap Range(FilterOrder)) \cup (CallNames \cap {"resize", "encode", "writeFile"})

\* C11 as stated: with no requested format, a transform of an input in any
\* accepted input format is encoded, in the input format when that is a
\* supported output format and in a default format otherwise.
AcceptedInputAlwaysEncoded ==
  (FormatOutputRan /\ ~TruthyStr(args.format) /\ inputFormat # {}
     /\ The(inputFormat) \in SUPPORTED_INPUT_FORMATS) =>
    \E i \in 1..Len(calls) :
      /\ calls[i].op = "encode"
      /\ The(inputFormat) \in SUPPORTED_OUTPUT_FORMATS =>
            The(calls[i].arg).encoder = The(inputFormat)

\* C12 as stated: the fit given to the resize is 'contain' only when both
\* dimensions were given and no fit was requested, and is the fit of the
\* request, unset when it had none, in every other case.
FitDefaultedOnlyWithBothGiven ==
  \A i \in 1..Len(calls) :
    calls[i].op = "resize" =>
      The(calls[i].arg).fit =
        (IF args.width # {} /\ args.height # {} /\ args.fit = {}
         THEN {"contain"} ELSE args.fit)

\* C12: the fit given to the resize is 'contain' when no fit was requested
\* and both dimensions or neither were given; it is the fit of the request,
\* unset when it had none, when exactly one dimension was given or a fit was
\* requested.
FitDefaultedUnlessOneGiven ==
  \A i \in 1..Len(calls) :
    calls[i].op = "resize" =>
      The(calls[i].arg).fit =
        (IF (args.width = {}) = (args.height = {}) /\ args.fit = {}
         THEN {"contain"} ELSE args.fit)

NoDimensionsContained ==
  /\ op = "transform"
  /\ args.width = {} /\ args.height = {} /\ args.fit = {}
  /\ Succeeded
  /\ \E i \in 1..Len(calls) :
       calls[i].op = "resize" /\ The(calls[i].arg).fit = {"contain"}

\* C13: input bytes with a HEIF signature are detected as 'heic', and a
\* failure of the HEIF decoder (an exception or an empty result) fails the
\* transform with InvalidParams; for other bytes the detected format is the
\* one the engine reports, and a missing format or one outside the input
\* allow-list fails the transform with InvalidParams naming it. After such
\* a failure nothing is resized, filtered, encoded or written.
FormatDetected ==
  \A i \in 1..Len(calls) :
    /\ calls[i].op = "heifDecode" =>
          IF The(calls[i].arg) = "image"
          THEN inputFormat = {"heic"} /\ (raised # {} => LaterCalls # {})
          ELSE /\ FailedNaming("InvalidParams", "Failed to decode HEIF image")
               /\ LaterCalls = {}
               /\ ~Succeeded
    /\ (calls[i].op = "metadata" /\ ~The(calls[i].arg).rejected) =>
          LET reported == The(calls[i].arg).format
          IN /\ inputFormat = reported
             /\ IF reported = {} \/ The(reported) \notin
                      {"jpeg", "jpg", "png", "webp", "avif", "tiff", "gif", "heic", "heif"}
                THEN /\ FailedNaming("InvalidParams", "Unsupported input format")
                     /\ (IF reported = {} THEN "undefined" ELSE The(reported))
                           \in The(raised).msg
                     /\ LaterCalls = {}
                     /\ ~Succeeded
                ELSE raised # {} => LaterCalls # {}

UnsupportedInputRejected ==
  /\ op = "transform"
  /\ \E i \in 1..Len(calls) :
       /\ calls[i].op = "metadata"
       /\ ~The(calls[i].arg).rejected
       /\ The(calls[i].arg).format = {"bmp"}
  /\ pc = "done"


(***************************************************************************)
(* Output file                                                             *)
(***************************************************************************)
CallsOf(name) == {i \in 1..Len(calls) : calls[i].op = name}

\* PathOut without its escape
PathOutNormalized == <<"o", " ", "p", ".", "p", "n", "g">>

\* the file write was the last call and the transform went to its catch
WriteFailed ==
  /\ calls # <<>>
  /\ calls[Len(calls)].op = "writeFile"
  /\ pc \in {"catch", "done"}

\* C14: with an output path the encoded bytes are written once, to the
\* normalized path, after the encoding and before the response; without one
\* nothing is written; a failed write fails the transform with an
\* InternalError naming the path and no success response.
OutputWrittenOnce ==
  op = "transform" =>
    /\ Cardinality(CallsOf("writeFile")) <= 1
    /\ ~TruthyText(args.outputPath) => CallsOf("writeFile") = {}
    /\ (TruthyText(args.outputPath) /\ Succeeded) => CallsOf("writeFile") # {}
    /\ \A i \in CallsOf("writeFile") :
         /\ The(calls[i].arg) = PathOutNormalized
         /\ \E j \in CallsOf("encode") : j < i
         /\ \A k \in CallsOf("finalMetadata") : i < k
    /\ WriteFailed =>
         /\ FailedNaming("InternalError", Str(The(args.outputPath)))
         /\ "Failed to save image to" \in The(raised).msg
         /\ ~Succeeded

OutputSaved ==
  /\ op = "transform"
  /\ Succeeded
  /\ CallsOf("writeFile") # {}
  /\ result.body.savedTo = {PathOut}


(***************************************************************************)
(* Independence of the source                                              *)
(***************************************************************************)
\* the request a with its image carried by the source f alone
WithSource(a, f) ==
  [a EXCEPT !.imagePath = IF f = "imagePath" THEN {PathIn} ELSE {},
            !.imageUrl = IF f = "imageUrl" THEN {UrlIn} ELSE {},
            !.base64Image = IF f = "base64Image" THEN {Base64In} ELSE {}]

\* the resize, the filters and the encoding among the calls made
PlanMade ==
  SelectSeq(calls, LAMBDA c : c.op \in {"resize", "encode"} \cup Range(FilterOrder))

\* the resize, the filters and the encoding of a request whose input was
\* detected as detected
PlanOf(a, detected) ==
  <<Call("resize", {applyResize(a)})>> \o applyTransformations(a) \o
  <<Call("encode", {[encoder |-> The(Encoder(SelectOutputFormat(a, detected))),
                     quality |-> SelectQuality(a)]})>>

\* C15: the resize parameters, the filter sequence, the output format and
\* the quality of a transform are those of the same request with its image
\* carried by any other source, the input bytes being the same.
PlanIndependentOfSource ==
  (op = "transform" /\ "encode" \in CallNames) =>
    \A f \in Sources :
      /\ PlanMade = PlanOf(WithSource(args, f), inputFormat)
      /\ outputFormat # {} =>
           outputFormat = {SelectOutputFormat(WithSource(args, f), inputFormat)}

RemoteSourceEncoded ==
  /\ op = "transform"
  /\ args.imagePath = {}
  /\ args.imageUrl # {}
  /\ args.quality # {}
  /\ Succeeded


(***************************************************************************)
(* Key, extension and content type of an upload                            *)
(***************************************************************************)
\* the entry of the fixed table for an extension
ContentTypeEntry(extension) ==
  CASE extension \in {"jpg", "jpeg"} -> "image/jpeg"
    [] extension = "png" -> "image/png"
    [] extension = "gif" -> "image/gif"
    [] extension = "webp" -> "image/webp"
    [] extension = "avif" -> "image/avif"
    [] extension = "tiff" -> "image/tiff"
    [] extension = "heic" -> "image/heic"
    [] extension = "heif" -> "image/heif"
    [] OTHER -> "application/octet-stream"

\* the key, the content type and the format of every put follow from the
\* file name's extension being extension
PutFollows(extension) ==
  InAdapter =>
    /\ \A i \in CallsOf("put") :
         /\ The(calls[i].arg).key =
              (IF args.folder # {} THEN FolderIn \o <<"/">> \o The(filename)
               ELSE The(filename))
         /\ The(calls[i].arg).contentType = ContentTypeEntry(extension)
    /\ uploaded # {} => The(uploaded).format = extension

\* C16 as stated: the key is 'folder/filename' or 'filename'; the extension
\* is the lower-cased part of the file name after its last '.', and 'jpg'
\* when the name has no '.'; the content type of the put is the table's entry
\* for it, application/octet-stream when it has none; the result's format is
\* the extension.
ExtensionAfterLastDot ==
  InAdapter =>
    PutFollows(IF Contains(The(filename), ".")
               THEN Str(toLowerCase(LastPart(The(filename), ".")))
               ELSE "jpg")

\* C16: as above, the extension being 'jpg' also when nothing follows the
\* last '.' of the file name.
ExtensionAfterLastDotOrJpg ==
  InAdapter =>
    PutFollows(IF Contains(The(filename), ".") /\ LastPart(The(filename), ".") # <<>>
               THEN Str(toLowerCase(LastPart(The(filename), ".")))
               ELSE "jpg")

UpperCasePngUploaded ==
  /\ op = "adapter"
  /\ filename = {NameUpper}
  /\ args.folder # {}
  /\ uploaded # {}
  /\ The(uploaded).format = "png"
  /\ \E i \in CallsOf("put") : The(calls[i].arg).contentType = "image/png"


(***************************************************************************)
(* Result URL                                                              *)
(***************************************************************************)
\* the key of the put made
KeyPut == The(calls[CHOOSE i \in CallsOf("put") : TRUE].arg).key

UploadDone == InAdapter /\ uploaded # {} /\ CallsOf("put") # {}

\* C17: the URL of a successful upload is
\* https://{bucket}.s3.{region}.amazonaws.com/{key} for the S3 adapter
\* without an endpoint, {endpoint}/{bucket}/{key} for the S3 adapter with an
\* endpoint and https://storage.googleapis.com/{bucket}/{key} for the GCS
\* adapter, {key} being the key of the put and {region} the region of the
\* adapter's configuration, rendered as 'undefined' when it has none.
ResultUrlFormed ==
  (UploadDone /\ Adapter \in {"s3", "gcloud"}) =>
    LET c == The(config)
    IN The(uploaded).url =
         (IF Adapter = "gcloud"
          THEN "https://storage.googleapis.com/" \o The(c.bucket) \o "/" \o Str(KeyPut)
          ELSE IF c.endpoint # {}
          THEN The(c.endpoint) \o "/" \o The(c.bucket) \o "/" \o Str(KeyPut)
          ELSE "https://" \o The(c.bucket) \o ".s3." \o Text(c.region)
                 \o ".amazonaws.com/" \o Str(KeyPut))

RegionalUrlReturned ==
  /\ op = "adapter"
  /\ UploadDone
  /\ args.folder # {}
  /\ The(uploaded).url = "https://b.s3.r.amazonaws.com/24/p.PNG"

\* C18: the URL of a successful upload to R2 is {baseUrl}/{key} when a
\* base URL is configured and {endpoint}/{bucket}/{key} when none is, a
\* field the configuration lacks being rendered as 'undefined'.
R2ResultUrlFormed ==
  (UploadDone /\ Adapter = "cloudflare") =>
    LET c == The(config)
    IN The(uploaded).url =
         (IF c.baseUrl # {}
          THEN The(c.baseUrl) \o "/" \o Str(KeyPut)
          ELSE Text(c.endpoint) \o "/" \o Text(c.bucket) \o "/" \o Str(KeyPut))

BaseUrlReturned ==
  /\ op = "adapter"
  /\ UploadDone
  /\ Adapter = "cloudflare"
  /\ args.folder = {}
  /\ The(uploaded).url = "https://cdn/p.x"


(***************************************************************************)
(* Options of the put                                                      *)
(***************************************************************************)
\* C19: the S3 put carries the ACL 'public-read' when the request is public
\* and 'private' otherwise, and a tagging string tag=<v1>&tag=<v2>... exactly
\* when the tag list is not empty; the R2 put carries neither, whatever the
\* request says, and does not fail for it; the GCS save carries the public
\* flag of the request unchanged.
PutOptionsByBackend ==
  InAdapter =>
    /\ \A i \in CallsOf("put") :
         LET options == The(calls[i].arg)
         IN CASE Adapter = "s3" ->
                   /\ options.acl = {IF args.public = {TRUE} THEN "public-read" ELSE "private"}
                   /\ options.tagging =
                        (IF args.tags = {TagsIn} THEN {"tag=a&tag=b%20c"} ELSE {})
              [] Adapter = "cloudflare" ->
                   options.acl = {} /\ options.tagging = {} /\ options.public = {}
              [] Adapter = "gcloud" ->
                   options.acl = {} /\ options.tagging = {} /\ options.public = args.public
    /\ (Adapter = "cloudflare" /\ raised # {}) =>
         \/ "already exists" \in The(raised).msg
         \/ The(raised).name \in ProbeErrors
         \/ The(raised).msg = {"backend failure"}

TaggedObjectPut ==
  /\ op = "adapter"
  /\ config # {}
  /\ Adapter = "s3"
  /\ args.tags = {TagsIn}
  /\ args.public = {FALSE}
  /\ uploaded # {}


(***************************************************************************)
(* Services of the factory                                                 *)
(***************************************************************************)
\* C20 as stated: for each service the upload accepts (s3, cloudflare,
\* gcloud) the factory constructs the adapter of that backend, and it fails
\* with InvalidParams for any other.
FactoryCoversAcceptedServices ==
  (op = "upload" /\ pc # "construct"
     /\ The(args.service) \in {"s3", "cloudflare", "gcloud"}) =>
    /\ config # {} => Adapter = The(args.service)
    /\ raised # {} => "Unsupported upload service" \notin The(raised).msg

(***************************************************************************)
(* Configuration of the adapters                                           *)
(***************************************************************************)
\* the configuration fields a backend cannot work without
MandatoryFields(service) ==
  CASE service = "s3" -> {"bucket"}
    [] service = "cloudflare" -> {"bucket", "apiKey", "apiSecret", "endpoint"}
    [] service = "gcloud" -> {"bucket", "projectId"}

MissingFields(c) == {f \in MandatoryFields(c.service) : ~TruthyStr(c[f])}

\* C21 as stated: an adapter that has issued a probe or a put has every
\* mandatory field of its backend (the bucket; for R2 also the access key,
\* the secret and the endpoint; for GCS also the project id), and an adapter
\* that could not be made for its configuration failed with InvalidParams
\* before any backend call.
BackendCallsOnlyWhenConfigured ==
  op \in {"upload", "adapter"} =>
    /\ (CallNames \cap {"probe", "put"} # {}) => MissingFields(The(config)) = {}
    /\ (config = {} /\ pc = "done" /\ The(raised).mcp) =>
         (The(raised).code = "InvalidParams" /\ BackendCalls = <<>>)

\* the first of two environment variables that is set
FirstSet(primary, alias) == IF env[primary] # {} THEN env[primary] ELSE env[alias]

\* the service the loader selects for the request
ServiceSelected ==
  IF args.service # {} THEN The(args.service)
  ELSE IF env.UPLOAD_SERVICE # {} THEN The(env.UPLOAD_SERVICE)
  ELSE "s3"

\* the object the loader of the factory returned
FactoryLoaded == The(calls[CHOOSE i \in CallsOf("create") : TRUE].arg)

\* a configuration field of that object, under either of its two names
LoadedField(name, variable) ==
  IF name \in DOMAIN FactoryLoaded THEN FactoryLoaded[name] ELSE Prop(FactoryLoaded, variable)

\* the credentials, the bucket, the region and the endpoint are those of the
\* environment, the legacy alias of a variable standing in for it when it is
\* not set
LoadedFromEnvironment(service, apiKey, apiSecret, bucket, region, endpoint) ==
  /\ service = ServiceSelected
  /\ service = "s3" =>
       /\ apiKey = FirstSet("AWS_ACCESS_KEY_ID", "S3_ACCESS_KEY")
       /\ apiSecret = FirstSet("AWS_SECRET_ACCESS_KEY", "S3_SECRET_KEY")
       /\ bucket = env.S3_BUCKET
       /\ region = (IF env.S3_REGION # {} THEN env.S3_REGION ELSE {"us-east-1"})
       /\ endpoint = env.S3_ENDPOINT
  /\ service = "cloudflare" =>
       /\ apiKey = FirstSet("CLOUDFLARE_R2_ACCESS_KEY_ID", "CF_ACCESS_KEY")
       /\ apiSecret = FirstSet("CLOUDFLARE_R2_SECRET_ACCESS_KEY", "CF_SECRET_KEY")
       /\ bucket = FirstSet("CLOUDFLARE_R2_BUCKET", "CF_BUCKET")
       /\ region = (IF env.CLOUDFLARE_R2_REGION # {} THEN env.CLOUDFLARE_R2_REGION
                    ELSE {"auto"})
       /\ endpoint = FirstSet("CLOUDFLARE_R2_ENDPOINT", "CF_ENDPOINT")

\* the configuration the loader of the upload tool returned
ToolConfigurationLoaded ==
  (op = "upload" /\ config # {}) =>
    LET c == The(config)
    IN LoadedFromEnvironment(c.service, c.apiKey, c.apiSecret, c.bucket,
                             c.region, c.endpoint)

\* C22 as stated: the configuration loaded for a request names the service
\* of the request, else that of UPLOAD_SERVICE, else 's3'; each credential
\* is the value of its primary variable when that is set and of its legacy
\* alias when only the alias is set (AWS_ACCESS_KEY_ID over S3_ACCESS_KEY,
\* AWS_SECRET_ACCESS_KEY over S3_SECRET_KEY, CLOUDFLARE_R2_* over CF_*); the
\* region defaults to 'us-east-1' for S3 and to 'auto' for R2. This holds of
\* the loader of the upload tool and of the loader of the factory.
ConfigurationLoadedWithAliases ==
  /\ ToolConfigurationLoaded
  /\ (op = "adapter" /\ CallsOf("create") # {}) =>
       LoadedFromEnvironment(
         The(Or(LoadedField("service", "UPLOAD_SERVICE"), {"none"})),
         LoadedField("apiKey", "AWS_ACCESS_KEY_ID"),
         LoadedField("apiSecret", "AWS_SECRET_ACCESS_KEY"),
         LoadedField("bucket", "S3_BUCKET"),
         LoadedField("region", "S3_REGION"),
         LoadedField("endpoint", "S3_ENDPOINT"))

(***************************************************************************)
(* Service of a request that names none                                    *)
(***************************************************************************)
\* C23 as stated: an upload request that names no service is served by the
\* adapter of the backend UPLOAD_SERVICE names when that variable is set, and
\* by the S3 adapter when it is not.
UnnamedServiceFollowsEnvironment ==
  (op = "upload" /\ request.service = {} /\ config # {}) =>
    Adapter = (IF env.UPLOAD_SERVICE # {} THEN The(env.UPLOAD_SERVICE) ELSE "s3")

(***************************************************************************)
(* Remote source                                                           *)
(***************************************************************************)
\* the fetch was the last call and the operation went to its catch
FetchFailed(i) == i = Len(calls) /\ raised # {}

\* C24: the fetch of a remote source returns bytes only for a response with
\* a 2xx status and a content type that begins with 'image/'; a status
\* outside 2xx fails with InvalidParams naming the status code, whatever the
\* content type; a 2xx response without a content type or with one that is
\* not an image fails with InvalidParams; a failure of the network or of
\* the reading of the body fails with InternalError; every failure is an
\* McpError.
RemoteFetchClassified ==
  \A i \in CallsOf("fetch") :
    LET r == The(calls[i].arg).response
        success == r.status \in 200..299
        image == r.contentType = {"image/png"}
    IN IF FetchFailed(i)
       THEN /\ The(raised).mcp
            /\ The(thrown) = The(raised)
            /\ The(raised).code =
                 (IF ~r.network THEN "InternalError"
                  ELSE IF ~success \/ ~image THEN "InvalidParams"
                  ELSE "InternalError")
            /\ (r.network /\ ~success) =>
                 /\ "Failed to fetch image from URL" \in The(raised).msg
                 /\ ToString(r.status) \in The(raised).msg
            /\ (r.network /\ success /\ ~image) =>
                 "URL does not point to an image" \in The(raised).msg
            /\ ~(r.network /\ success /\ image /\ r.body)
       ELSE r.network /\ success /\ image /\ r.body

NotFoundPageRefused ==
  /\ op = "upload"
  /\ pc = "done"
  /\ result.kind = "throw"
  /\ \E i \in CallsOf("fetch") :
       /\ FetchFailed(i)
       /\ The(calls[i].arg).response.status = 404
       /\ The(calls[i].arg).response.contentType = {"text/html"}

(***************************************************************************)
(* Name of the uploaded object                                             *)
(***************************************************************************)
\* the name of the source read: the last segment of the normalized path, the
\* last segment of the URL's path, or the placeholder of an inline payload
NameOfSource ==
  IF "imagePath" \in Populated
  THEN LastPart(normalizeFilePath(The(args.imagePath)), "/")
  ELSE IF "imageUrl" \in Populated
  THEN LastPart(FirstPart(The(args.imageUrl), "?"), "/")
  ELSE <<"i", "m", "a", "g", "e">>

\* the URLs of the objects of the bucket end where the key begins
BucketUrls ==
  {"https://b.s3.r.amazonaws.com/", "https://b.s3.us-east-1.amazonaws.com/",
   "https://x/b/"}

\* C25 as stated: an upload without a custom filename hands the adapter the
\* name of its source (the last segment of the normalized path, the last
\* segment of the URL's path without the query string, 'image' for an inline
\* payload) and the object is put under it, after the folder when one is
\* given; the upload of 'x/in.png' to the folder '24' succeeds with a URL
\* that ends in '/24/in.png'.
StoredUnderSourceName ==
  (op = "upload" /\ args.filename = {} /\ filename # {}) =>
    /\ filename = {NameOfSource}
    /\ \A i \in CallsOf("put") :
         The(calls[i].arg).key =
           (IF args.folder # {} THEN FolderIn \o <<"/">> \o NameOfSource ELSE NameOfSource)
    /\ (uploaded # {} /\ args.imagePath # {} /\ args.folder # {}) =>
         \E base \in BucketUrls : The(uploaded).url = base \o "24/in.png"

\* the extension of a file name: what follows its last '.', none without one
ExtensionOf(name) ==
  IF Contains(name, ".") /\ LastPart(name, ".") # <<>> THEN {LastPart(name, ".")} ELSE {}

\* C26 as stated: a custom filename with an extension is handed to the
\* adapter unchanged; one without an extension gets the extension of the
\* original filename appended, and 'jpg' when the original filename has none
\* (it is absent or has no '.', as for an inline payload).
CustomFilenameCompleted ==
  (op = "upload" /\ TruthyText(args.filename) /\ filename # {}) =>
    LET custom == The(args.filename)
        original == OriginalFilename(args)
        extension == IF original = {} THEN {} ELSE ExtensionOf(The(original))
    IN filename =
         {IF Contains(custom, ".") THEN custom
          ELSE custom \o <<".">> \o
                 (IF extension = {} THEN <<"j", "p", "g">> ELSE The(extension))}

(***************************************************************************)
(* Numeric filter parameters                                               *)
(***************************************************************************)
\* the filters have been applied
FiltersApplied ==
  /\ op = "transform"
  /\ "resize" \in CallNames
  /\ pc # "applyTransformations"

\* C27 as stated: every threshold of 0 to 255 a transform request holds, 0
\* included, gives a threshold operation with that value among the filters
\* applied, and so does every other numeric filter parameter of the request.
NumericFiltersNeverSkipped ==
  FiltersApplied =>
    \A f \in {"rotate", "blur", "sharpen", "gamma", "threshold"} :
      args[f] # {} => \E i \in CallsOf(f) : calls[i].arg = args[f]

(***************************************************************************)
(* Overwrite protection under concurrency                                  *)
(***************************************************************************)
\* C28 as stated: of the concurrent invocations that target one key without
\* overwrite, at most one stores its bytes, and none stores over an object
\* that is already stored.
OverwriteProtectedUnderConcurrency ==
  (op = "race" /\ ~TruthyBool(args.overwrite)) => Len(writes) <= 1

(***************************************************************************)
(* The savedTo field of the transform response                             *)
(***************************************************************************)
\* C29 as stated: in a successful transform response savedTo is null
\* exactly when no file was written, and is otherwise the path of the file
\* the encoded bytes were written to.
SavedToIsWrittenPath ==
  (op = "transform" /\ Succeeded) =>
    /\ result.body.savedTo = {} <=> CallsOf("writeFile") = {}
    /\ \A i \in CallsOf("writeFile") : result.body.savedTo = calls[i].arg

(***************************************************************************)
(* Region of the S3 adapter                                                *)
(***************************************************************************)
\* C30 as stated: for the S3 adapter without an endpoint, the region in the
\* URL and in the metadata of a successful upload is the region its storage
\* client was constructed with, 'us-east-1' when the configuration has none.
RegionReportedIsClientRegion ==
  (UploadDone /\ Adapter = "s3" /\ The(config).endpoint = {}) =>
    LET region == S3ClientRegion(The(config))
    IN /\ The(uploaded).region = region
       /\ The(uploaded).url =
            "https://" \o Text(The(config).bucket) \o ".s3." \o The(region)
              \o ".amazonaws.com/" \o Str(KeyPut)

=============================================================================
